---- MODULE Spec2Model ----
(***************************************************************************)
(* Model of src/lib/createStateWith.ts: the State class (one typed value   *)
(* plus an optional onChange callback) and createStateWith, which binds an *)
(* already constructed State instance and runs an optional initial effect. *)
(*                                                                         *)
(* Execution is single-threaded and synchronous.  The only way two calls   *)
(* overlap is re-entrancy: onChange (called from set, line 95) and the     *)
(* initial effect (called from createStateWith, line 23) are caller code   *)
(* that may itself call get, set and createStateWith, return, or throw.    *)
(* The model keeps a call stack with one frame per set / createStateWith   *)
(* call that is currently suspended inside such a function.                *)
(***************************************************************************)
EXTENDS Naturals, Sequences, FiniteSets

VARIABLES
    value,      \* State.value (line 49)
    onChange,   \* State.onChange (line 50): TRUE = a function, FALSE = undefined
    ctor,       \* the constructor's arguments (lines 58-61), never changed
    stack,      \* suspended set / createStateWith calls, innermost last
    exc,        \* the exception being propagated, or "none"
    committed,  \* the argument of the latest set that assigned (line 92)
    notified,   \* how many times onChange has been invoked (line 95)
    changing,   \* how many set calls had a matching type and a differing value
    plan,       \* what onChange and the initial effect do when they run
    last        \* what the step just taken was: the call that just ended

vars == <<value, onChange, ctor, stack, exc, committed, notified, changing,
          plan, last>>

\* Deepest nesting of calls suspended in a callback or an effect, when
\* these are arbitrary code and when they follow a fixed plan.
MaxDepth == 2
MaxPlannedDepth == 3

\* Most set calls counted in one run.
MaxChanges == 3

---------------------------------------------------------------------------
\* JavaScript values a caller can pass, by name.
Numbers == {"n1", "n2", "NaN"}
Strings == {"sa", "sb"}
Objects == {"o1", "o2", "arr", "null"}
Values == Numbers \cup Strings \cup Objects \cup {"undefined"}

\* Arguments of createStateWith: the State instance, a plain object literal
\* with get and set, and an object with no prototype (Object.create(null)).
Targets == {"cell", "plain", "bare"}

\* What a value looks like to a structural comparison: o1 and o2 are two
\* distinct objects with the same properties, arr is an array.
Shape(v) ==
    CASE v \in {"o1", "o2"} -> "{k: 1}"
      [] v = "arr" -> "[]"
      [] OTHER -> v

\* typeof (lines 72, 73, 75): null and arrays have the tag of objects.
TypeOf_Precise(v) ==
    CASE v \in Numbers -> "number"
      [] v \in Strings -> "string"
      [] v = "null" -> "null"
      [] v = "arr" -> "array"
      [] v \in Objects -> "object"
      [] OTHER -> "undefined"
TypeOf(v) ==
    CASE v \in Numbers -> "number"
      [] v \in Strings -> "string"
      [] v \in Objects -> "object"
      [] OTHER -> "undefined"

\* a !== b (line 81): identity for references, value for primitives, and
\* NaN differs from everything, itself included.
StrictNotEqual_Structural(a, b) == Shape(a) # Shape(b) \/ a = "NaN"
StrictNotEqual(a, b) == a # b \/ a = "NaN"

\* The type test of verifyValue (line 75): TRUE when no error is thrown.
TypeMatches_NoCheck(cur, new) == TRUE
TypeMatches(cur, new) == TypeOf(new) = TypeOf(cur)

\* The result of verifyValue when it returns (line 81).
Changed_Always(cur, new) == TRUE
Changed(cur, new) == StrictNotEqual(cur, new)

\* The message of the ValidationError (lines 76-78), as the pieces the
\* template literal concatenates, in order.
ValidationMessage(valueType, recievedType) ==
    <<"Expected type of ", valueType, " but recieved ", recievedType>>

\* verifyValue (lines 71-82): "throw", or the boolean it returns ("changed"
\* for true, "same" for false).
VerifyValue_Unchecked(cur, new) ==
    IF Changed(cur, new) THEN "changed" ELSE "same"
VerifyValue(cur, new) ==
    IF ~TypeMatches(cur, new) THEN "throw"
    ELSE IF Changed(cur, new) THEN "changed" ELSE "same"

\* this.value = newValue (line 92): the stored value after the assignment.
CommitValue_Late(cur, new) == cur
CommitValue(cur, new) == new

\* The stored value once lines 91-92 are done: the assignment is inside the
\* if, so it happens only when verifyValue returned true.
StoredAfter_Eager(verdict, cur, new) == new
StoredAfter(verdict, cur, new) ==
    IF verdict = "changed" THEN CommitValue(cur, new) ELSE cur

\* if (this.onChange) (line 94).
HasCallback_Never(cb) == FALSE
HasCallback(cb) == cb

\* The argument of this.onChange(this.value) (line 95); stored is this.value
\* at that point.
CallbackArg_Prior(stored, prior) == prior
CallbackArg(stored, prior) == stored

\* get (lines 105-107).
Get_Initial(stored, initial) == initial
Get(stored, initial) == stored

\* extendedState instanceof State (line 21).
IsInstance(obj) == obj = "cell"

\* typeof initalEffect !== 'undefined' (line 22).
EffectSupplied(eff) == eff

\* The argument of initalEffect(extendedState.get()) (line 23).
EffectArg_Undefined(stored) == "undefined"
EffectArg(stored) == Get(stored, stored)

\* return extendedState (line 26).
BindResult_Fresh(obj) == "fresh"
BindResult(obj) == obj

\* `${extendedState}` (line 29): the string conversion calls the object's
\* toString; an object without a prototype has none and the conversion
\* throws a TypeError before InstanceError is constructed.
Stringifies(obj) == obj # "bare"

\* The error createStateWith ends with for a non-instance (lines 28-30).
BindError(obj) == IF Stringifies(obj) THEN "InstanceError" ELSE "TypeError"

---------------------------------------------------------------------------
NoEvent ==
    [op |-> "none", arg |-> "undefined", eff |-> FALSE, pre |-> "undefined",
     outcome |-> "ok", n |-> 0, cbArg |-> "undefined", dirty |-> FALSE,
     nested |-> FALSE, result |-> "undefined", msg |-> <<>>, base |-> 0]

\* A suspended call: op is "set" (inside onChange, line 95) or "bind"
\* (inside the initial effect, line 23).  arg is the call's first argument,
\* pre the stored value when the call began, n the number of times the call
\* itself invoked its function, cbArg the argument it passed.  dirty: the
\* running function has called set; nested: onChange was invoked by a call
\* the running function made.  msg is the message of the error the call
\* itself raised, if it raised one.  base is the number of onChange
\* invocations made before the call began.
Frame(op, arg, eff, pre, cbArg) ==
    [op |-> op, arg |-> arg, eff |-> eff, pre |-> pre, outcome |-> "ok",
     n |-> 1, cbArg |-> cbArg, dirty |-> FALSE, nested |-> FALSE,
     result |-> "undefined", msg |-> <<>>, base |-> notified]

Depth == Len(stack)
DepthLimit == IF plan.cb = "any" THEN MaxDepth ELSE MaxPlannedDepth
Top == stack[Depth]

\* Caller code is running: the top level, a callback or an effect.
Running == exc = "none"

\* The stack with the running function's frame marked.
Mark(d, n) ==
    IF Depth = 0 THEN stack
    ELSE [stack EXCEPT ![Depth] =
            [@ EXCEPT !.dirty = @ \/ d, !.nested = @ \/ n]]

\* The stack without its top frame f; what happened inside f also happened
\* inside the function that called f.
Pop ==
    LET rest == SubSeq(stack, 1, Depth - 1) IN
    IF Depth = 1 THEN rest
    ELSE [rest EXCEPT ![Depth - 1] =
            [@ EXCEPT !.dirty = @ \/ Top.dirty, !.nested = @ \/ Top.nested]]

Init ==
    /\ value \in Values
    /\ onChange \in BOOLEAN
    /\ ctor = [value |-> value, onChange |-> onChange]
    /\ stack = <<>>
    /\ exc = "none"
    /\ committed = value
    /\ notified = 0
    /\ changing = 0
    /\ plan = [cb |-> "any", eff |-> "any"]
    /\ last = NoEvent

\* set(newValue) (lines 90-98) up to the point where it either ends or is
\* suspended inside onChange.
Set(newValue) ==
    LET verdict == VerifyValue(value, newValue)
        ev == [NoEvent EXCEPT !.op = "set", !.arg = newValue, !.pre = value,
                              !.base = notified]
        differs == /\ TypeOf(newValue) = TypeOf(value)
                   /\ StrictNotEqual(value, newValue)
    IN
    /\ Running
    /\ (differs \/ verdict = "changed") =>
            (changing < MaxChanges /\ notified < MaxChanges)
    /\ value' = StoredAfter(verdict, value, newValue)
    /\ committed' = IF verdict = "changed" THEN newValue ELSE committed
    /\ changing' = IF differs THEN changing + 1 ELSE changing
    /\ IF verdict = "throw" THEN
            /\ exc' = "ValidationError"
            /\ last' = [ev EXCEPT !.outcome = "ValidationError",
                                  !.msg = ValidationMessage(TypeOf(value),
                                                            TypeOf(newValue))]
            /\ stack' = Mark(TRUE, FALSE)
            /\ UNCHANGED notified
       ELSE IF verdict = "same" \/ ~HasCallback(onChange) THEN
            /\ last' = ev
            /\ stack' = Mark(TRUE, FALSE)
            /\ UNCHANGED <<exc, notified>>
       ELSE
            /\ Depth < DepthLimit
            /\ stack' = Append(Mark(TRUE, TRUE),
                               Frame("set", newValue, FALSE, value,
                                     CallbackArg(value', value)))
            /\ notified' = notified + 1
            /\ last' = NoEvent
            /\ UNCHANGED exc
    /\ UNCHANGED <<onChange, ctor, plan>>

\* get() (lines 105-107).
GetCall ==
    /\ Running
    /\ last' = [NoEvent EXCEPT !.op = "get", !.pre = value,
                               !.result = Get(value, ctor.value)]
    /\ UNCHANGED <<value, onChange, ctor, plan, notified, changing,
                 stack, exc, committed>>

\* createStateWith(extendedState, initalEffect) (lines 13-32) up to the
\* point where it either ends or is suspended inside the effect.
Bind(obj, eff) ==
    LET ev == [NoEvent EXCEPT !.op = "bind", !.arg = obj, !.eff = eff,
                              !.pre = value, !.base = notified]
    IN
    /\ Running
    /\ IF ~IsInstance(obj) THEN
            /\ exc' = BindError(obj)
            /\ last' = [ev EXCEPT !.outcome = BindError(obj),
                                  !.result = "nothing"]
            /\ UNCHANGED stack
       ELSE IF ~EffectSupplied(eff) THEN
            /\ last' = [ev EXCEPT !.result = BindResult(obj)]
            /\ UNCHANGED <<stack, exc>>
       ELSE
            /\ Depth < DepthLimit
            /\ stack' = Append(stack,
                               Frame("bind", obj, eff, value, EffectArg(value)))
            /\ last' = NoEvent
            /\ UNCHANGED exc
    /\ UNCHANGED <<value, onChange, ctor, plan, notified, changing,
                 committed>>

\* The running callback or effect returns; the call that invoked it has
\* nothing left to do but return (lines 96-98, line 26).
Return ==
    /\ Running
    /\ Depth > 0
    /\ last' = [Top EXCEPT !.result =
                    IF Top.op = "bind" THEN BindResult(Top.arg) ELSE "undefined"]
    /\ stack' = Pop
    /\ UNCHANGED <<value, onChange, ctor, plan, notified, changing,
                 exc, committed>>

\* The running callback or effect throws an error of its own; neither set
\* nor createStateWith has a handler, so the call that invoked it ends too.
Throw ==
    /\ Running
    /\ Depth > 0
    /\ exc' = "UserError"
    /\ last' = [Top EXCEPT !.outcome = "UserError", !.result = "nothing"]
    /\ stack' = Pop
    /\ UNCHANGED <<value, onChange, ctor, plan, notified, changing,
                 committed>>

\* The caller of the call that just failed handles the error.
Catch ==
    /\ exc # "none"
    /\ exc' = "none"
    /\ last' = NoEvent
    /\ UNCHANGED <<value, onChange, ctor, plan, notified, changing,
                 stack, committed>>

\* The running callback or effect does not handle the error of a call it
\* made: it ends, and so does the call that invoked it.
Propagate ==
    /\ exc # "none"
    /\ Depth > 0
    /\ last' = [Top EXCEPT !.outcome = exc, !.result = "nothing"]
    /\ stack' = Pop
    /\ UNCHANGED <<value, onChange, ctor, plan, notified, changing,
                 exc, committed>>

Next ==
    \/ \E v \in Values : Set(v)
    \/ GetCall
    \/ \E obj \in Targets, eff \in BOOLEAN : Bind(obj, eff)
    \/ Return
    \/ Throw
    \/ Catch
    \/ Propagate

Spec == Init /\ [][Next]_vars

---------------------------------------------------------------------------
\* The same cell driven by fixed caller code instead of arbitrary code:
\* onChange either returns at once (plan.cb = "quiet") or calls set(plan.cb)
\* once, with a fixed value of the cell's type, and returns; the initial
\* effect calls set(plan.eff) once and returns.  All calls of the top level
\* are made while no other call is in progress.
SameType(v) == {w \in Values : TypeOf(w) = TypeOf(v)}

ScriptedInit ==
    /\ value \in Values
    /\ onChange \in BOOLEAN
    /\ ctor = [value |-> value, onChange |-> onChange]
    /\ stack = <<>>
    /\ exc = "none"
    /\ committed = value
    /\ notified = 0
    /\ changing = 0
    /\ plan \in [cb : SameType(value) \cup {"quiet"}, eff : SameType(value)]
    /\ last = NoEvent

CallerSet(v) == Depth = 0 /\ Set(v)

CallerBind == Depth = 0 /\ Bind("cell", TRUE)

CallerCatch == Depth = 0 /\ Catch

\* onChange as planned: its one set call, then its return.
CallbackStep ==
    /\ Depth > 0
    /\ Top.op = "set"
    /\ IF plan.cb # "quiet" /\ ~Top.dirty THEN Set(plan.cb) ELSE Return

\* The initial effect as planned: its one set call, then its return.
EffectStep ==
    /\ Depth > 0
    /\ Top.op = "bind"
    /\ IF ~Top.dirty THEN Set(plan.eff) ELSE Return

ScriptedNext ==
    \/ \E v \in Values : CallerSet(v)
    \/ CallerBind
    \/ CallerCatch
    \/ CallbackStep
    \/ EffectStep

SpecScripted == ScriptedInit /\ [][ScriptedNext]_vars

---------------------------------------------------------------------------
\* The call that just ended, by kind.
SetEnded == last.op = "set"
BindEnded == last.op = "bind"
GetEnded == last.op = "get"

\* C1: a set whose argument's typeof differs from the typeof of the value the
\* cell was constructed with ends with a ValidationError that reaches its
\* caller, leaves the stored value as it was before the call, and has not
\* invoked the change callback.
C1_TypeMismatchRejected ==
    (SetEnded /\ TypeOf(last.arg) # TypeOf(ctor.value)) =>
        /\ last.outcome = "ValidationError"
        /\ exc = "ValidationError"
        /\ Get(value, ctor.value) = last.pre
        /\ last.n = 0

C1_Witness ==
    /\ SetEnded
    /\ TypeOf(last.arg) # TypeOf(ctor.value)
    /\ onChange
    /\ value # ctor.value

\* C2 as stated: a set(v) on a cell with a callback, v of the cell's type and
\* different from the current value, causes exactly one callback invocation,
\* with argument v, and the stored value after the call is v.
C2_Original ==
    (SetEnded /\ onChange /\ VerifyValue(last.pre, last.arg) = "changed") =>
        /\ last.n = 1
        /\ ~last.nested
        /\ last.cbArg = last.arg
        /\ Get(value, ctor.value) = last.arg

\* C2 as amended: such a set itself invokes the callback exactly once, with
\* argument v; when the callback made no set call of its own, that is the
\* only invocation and the stored value after the call is v.
C2_ChangeNotifiesOnce ==
    (SetEnded /\ onChange /\ VerifyValue(last.pre, last.arg) = "changed") =>
        /\ last.n = 1
        /\ last.cbArg = last.arg
        /\ ~last.dirty =>
            /\ ~last.nested
            /\ Get(value, ctor.value) = last.arg

C2_Witness ==
    /\ SetEnded
    /\ onChange
    /\ VerifyValue(last.pre, last.arg) = "changed"
    /\ last.outcome = "ok"
    /\ ~last.dirty
    /\ last.arg # last.pre

\* C3 as stated: set(get()), a set whose argument is the value currently
\* stored, invokes no callback and leaves the stored value and the callback
\* reference as they were.
C3_SetOfCurrentIsNoOp ==
    (SetEnded /\ last.arg = last.pre) =>
        /\ last.n = 0
        /\ last.outcome = "ok"
        /\ value = last.pre
        /\ onChange = ctor.onChange

\* C4 as stated: a set that ends by propagating an error leaves the stored
\* value equal to the value held when the call began.
C4_Original ==
    (SetEnded /\ last.outcome # "ok") => value = last.pre

\* C4 as amended: a set that ends with the error of its own type check leaves
\* the stored value as it was; a set that ends with an error coming out of
\* its callback had committed its argument before the callback started.
C4_RejectedSetLeavesValue ==
    (SetEnded /\ last.outcome # "ok") =>
        IF last.n = 0
        THEN last.outcome = "ValidationError" /\ value = last.pre
        ELSE /\ VerifyValue(last.pre, last.arg) = "changed"
             /\ last.cbArg = last.arg
             /\ ~last.dirty => value = last.arg

C4_Witness ==
    /\ SetEnded
    /\ last.outcome = "ValidationError"
    /\ last.n = 0
    /\ Depth > 0
    /\ value # ctor.value

\* C5: in every reachable state the typeof of the stored value is the typeof
\* of the value the cell was constructed with.
C5_TypeIsFixed == TypeOf(value) = TypeOf(ctor.value)

\* A callback running inside a callback has committed a value of its own.
C5_Witness ==
    /\ Depth = 2
    /\ stack[1].op = "set"
    /\ stack[2].op = "set"
    /\ value # ctor.value
    /\ value # stack[1].arg

\* C6 as stated: createStateWith with a non-instance ends with an
\* InstanceError, with or without an effect, without invoking the effect,
\* changing the cell or returning a value.
C6_NonInstanceIsInstanceError ==
    (BindEnded /\ last.arg # "cell") =>
        /\ last.outcome = "InstanceError"
        /\ exc = "InstanceError"
        /\ last.n = 0
        /\ last.result = "nothing"
        /\ value = last.pre

\* C7 as stated: createStateWith with an instance and an effect invokes the
\* effect exactly once with the value stored when the call began and returns
\* the instance it was given; without an effect it invokes nothing and
\* returns the instance.
C7_Original ==
    (BindEnded /\ last.arg = "cell") =>
        /\ last.n = (IF last.eff THEN 1 ELSE 0)
        /\ last.eff => last.cbArg = last.pre
        /\ last.outcome = "ok"
        /\ last.result = last.arg

\* C7 as amended: the same, except that the instance is returned when the
\* effect returns normally; when the effect ends with an error, the call
\* ends with that error and returns nothing.
C7_EffectPassThrough ==
    (BindEnded /\ last.arg = "cell") =>
        /\ last.n = (IF last.eff THEN 1 ELSE 0)
        /\ last.eff => last.cbArg = last.pre
        /\ last.outcome # "ok" => last.eff
        /\ last.result = (IF last.outcome = "ok" THEN last.arg ELSE "nothing")

C7_Witness ==
    /\ BindEnded
    /\ last.arg = "cell"
    /\ last.eff
    /\ last.outcome = "ok"
    /\ last.pre # ctor.value

\* C8: while the callback invoked for set(v) is running and has made no set
\* call yet, the stored value is v, and the argument the callback received
\* is v.
C8_CommitBeforeNotify ==
    (Depth > 0 /\ Top.op = "set" /\ ~Top.dirty) =>
        /\ Get(value, ctor.value) = Top.arg
        /\ Top.cbArg = Top.arg

C8_Witness ==
    /\ Depth = 2
    /\ Top.op = "set"
    /\ ~Top.dirty
    /\ Top.arg # Top.pre
    /\ exc = "none"

\* C9: a createStateWith whose effect (if any) made no set call leaves the
\* stored value and the callback reference as they were, has not caused a
\* callback invocation, and what it returns is the object it was given.
C9_BindFrame ==
    (BindEnded /\ ~last.dirty) =>
        /\ value = last.pre
        /\ onChange = ctor.onChange
        /\ ~last.nested
        /\ last.result \in {last.arg, "nothing"}
        /\ last.outcome = "ok" => last.result = last.arg

C9_Witness ==
    /\ BindEnded
    /\ last.arg = "cell"
    /\ last.eff
    /\ ~last.dirty
    /\ last.outcome = "ok"
    /\ onChange
    /\ value # ctor.value

\* C10: a get changes neither the stored value nor the callback reference,
\* invokes nothing, raises nothing, and returns the argument of the latest
\* set that assigned (the constructor's value when none has).
C10_GetPureAndCurrent ==
    [][GetCall =>
        /\ value' = value
        /\ onChange' = onChange
        /\ stack' = stack
        /\ exc' = "none"
        /\ last'.result = committed]_vars

C10_Witness ==
    /\ GetEnded
    /\ Depth > 0
    /\ last.result # ctor.value
    /\ last.result # stack[1].arg

\* C11 as stated: the ValidationError of a type mismatch carries exactly
\* "Expected type of {valueType} but received {receivedType}", valueType the
\* typeof of the stored value and receivedType the typeof of the argument.
C11_MessageAsSpecified ==
    (SetEnded /\ last.outcome = "ValidationError" /\ last.n = 0) =>
        last.msg = <<"Expected type of ", TypeOf(last.pre),
                     " but received ", TypeOf(last.arg)>>

\* The number of set calls suspended in their callback; the cell is Idle
\* when there is none and Notifying otherwise.
RECURSIVE SetFrames(_)
SetFrames(s) ==
    IF s = <<>> THEN 0
    ELSE SetFrames(Tail(s)) + (IF Head(s).op = "set" THEN 1 ELSE 0)

Differs(cur, new) == TypeOf(new) = TypeOf(cur) /\ StrictNotEqual(cur, new)

C12_Accounting ==
    /\ onChange => notified = changing
    /\ ~onChange => notified = 0
    /\ \A i \in 1..Depth :
          stack[i].op = "set" => Differs(stack[i].pre, stack[i].arg)
    /\ SetEnded => last.n = (IF onChange /\ Differs(last.pre, last.arg)
                             THEN 1 ELSE 0)

C12_Step ==
    /\ (last'.op = "set" /\ last'.n = 0) => SetFrames(stack') = SetFrames(stack)
    /\ (last'.op = "set" /\ last'.n = 1) =>
            SetFrames(stack') = SetFrames(stack) - 1
    /\ SetFrames(stack') > SetFrames(stack) =>
            /\ SetFrames(stack') = SetFrames(stack) + 1
            /\ notified' = notified + 1
            /\ Differs(value, Top'.arg)

\* C12: with a callback registered, a callback runs only for a set whose
\* argument had the cell's type and differed from the value then stored; a
\* set without a change or with a type mismatch starts no notification; the
\* number of callback invocations equals the number of changing set calls;
\* a set that notified ends with one notification fewer in progress.
C12_NotificationAccounting == [](C12_Accounting) /\ [][C12_Step]_vars

C12_Witness ==
    /\ onChange
    /\ notified = 3
    /\ changing = 3
    /\ SetEnded
    /\ last.n = 1
    /\ Depth = 0

\* A set called from the running callback of another set has just ended.
InnerSetEnded == SetEnded /\ Depth > 0 /\ Top.op = "set"

C13_Nested ==
    /\ InnerSetEnded =>
          /\ Top.dirty
          /\ IF TypeOf(last.arg) # TypeOf(last.pre)
             THEN last.outcome = "ValidationError" /\ value = last.pre
             ELSE IF StrictNotEqual(last.pre, last.arg)
             THEN /\ last.n = 1
                  /\ last.cbArg = last.arg
                  /\ ~last.dirty => value = last.arg
             ELSE last.n = 0 /\ last.outcome = "ok" /\ value = last.pre
    /\ (SetEnded /\ last.n = 1) => value = committed

C13_Order ==
    /\ Depth' < Depth =>
          /\ Depth' = Depth - 1
          /\ last'.op = Top.op
          /\ last'.arg = Top.arg
          /\ last'.pre = Top.pre
          /\ last'.cbArg = Top.cbArg
    /\ Depth' >= Depth => \A i \in 1..(Depth - 1) : stack'[i] = stack[i]
    /\ Depth' > Depth => Depth' = Depth + 1 /\ last' = NoEvent

\* C13: a set called by the callback of an outer set on the same cell is
\* type-checked, assigned and notified like any other set, while the outer
\* call stays suspended and untouched; calls end innermost first; when the
\* outer set ends, the stored value is the one committed by the latest
\* changing set.
C13_ReentrantSetNests == [](C13_Nested) /\ [][C13_Order]_vars

C13_Witness ==
    /\ SetEnded
    /\ Depth = 0
    /\ last.n = 1
    /\ last.dirty
    /\ last.nested
    /\ last.outcome = "ok"
    /\ value # last.arg
    /\ value # last.pre

\* The createStateWith call that just ended ran an effect whose set(w) had a
\* w of the cell's type that differed from the value then stored, on a cell
\* with a change callback.
MutatingBindEnded ==
    /\ BindEnded
    /\ last.eff
    /\ onChange
    /\ Differs(last.pre, plan.eff)

C16_SelfCorrectingTerminates ==
    (plan.cb # "quiet" /\ ~StrictNotEqual(plan.cb, plan.cb)) =>
        /\ SetFrames(stack) <= 2
        /\ (Depth > 0 /\ Top.op = "set" /\ SetFrames(stack) = 2) =>
              /\ Top.cbArg = plan.cb
              /\ value = plan.cb
              /\ Top.base = stack[Depth - 1].base + 1
        /\ (SetEnded /\ last.n = 1 /\ SetFrames(stack) = 1) =>
              /\ last.arg = plan.cb
              /\ notified = last.base + 1
        /\ (SetEnded /\ last.n = 1 /\ SetFrames(stack) = 0) =>
              /\ last.outcome = "ok"
              /\ Get(value, ctor.value) = plan.cb
              /\ notified = last.base + (IF last.arg = plan.cb THEN 1 ELSE 2)

C16_Witness ==
    /\ plan.cb \notin {"quiet", "NaN"}
    /\ SetEnded
    /\ last.n = 1
    /\ Depth = 0
    /\ notified = last.base + 2
    /\ last.arg # plan.cb
    /\ last.pre # plan.cb
    /\ value = plan.cb

\* Values held by reference.
References == {"o1", "o2", "arr"}

\* C15: for a cell holding a reference, a set with another reference to a
\* structurally equal value counts as a change (the new reference is stored
\* and the set invokes the callback once, with it, and nothing else is
\* invoked unless the callback calls set), and a set with the very reference
\* stored is a no-op without a callback invocation.
C15_ShallowChangeDetection ==
    /\ (/\ SetEnded
        /\ last.pre \in References
        /\ last.arg \in References
        /\ last.arg # last.pre
        /\ Shape(last.arg) = Shape(last.pre)) =>
            /\ last.n = (IF onChange THEN 1 ELSE 0)
            /\ onChange => last.cbArg = last.arg
            /\ ~last.dirty =>
                  /\ Get(value, ctor.value) = last.arg
                  /\ notified = last.base + last.n
    /\ (SetEnded /\ last.pre \in References /\ last.arg = last.pre) =>
            /\ last.n = 0
            /\ last.outcome = "ok"
            /\ notified = last.base
            /\ value = last.pre

C15_Witness ==
    /\ SetEnded
    /\ onChange
    /\ last.pre = "o1"
    /\ last.arg = "o2"
    /\ last.n = 1
    /\ ~last.dirty
    /\ last.outcome = "ok"
    /\ value = "o2"

\* C17: a cell whose value has the tag 'object' accepts null and an array:
\* the set commits the argument and notifies; a set is rejected exactly when
\* the typeof tags of the stored value and the argument differ, whatever the
\* two values are.
C17_TypeGateGranularity ==
    /\ (/\ SetEnded
        /\ last.pre \in Objects
        /\ last.arg \in {"null", "arr"}
        /\ last.arg # last.pre) =>
            /\ last.n = (IF onChange THEN 1 ELSE 0)
            /\ onChange => last.cbArg = last.arg
            /\ ~last.dirty => Get(value, ctor.value) = last.arg
    /\ SetEnded =>
          ((last.n = 0 /\ last.outcome = "ValidationError")
              <=> TypeOf(last.arg) # TypeOf(last.pre))

C17_Witness ==
    /\ SetEnded
    /\ onChange
    /\ ctor.value = "o1"
    /\ last.pre = "null"
    /\ last.arg = "arr"
    /\ last.n = 1
    /\ ~last.dirty
    /\ value = "arr"

====
